---------------------------- MODULE Spec2Model ----------------------------
(***************************************************************************)
(* A model of the lasagnelang front end: the statement loop and the Pratt  *)
(* expression parser of parser.rs, and the tree-walking evaluator of       *)
(* evaluator.rs.  The token cursor (LexedTokens) and the token tables      *)
(* (Token::has_infix, Token::get_precedence) belong to the lexer crate;    *)
(* they are modelled from the specification's description of the token     *)
(* stream and of the precedence table.                                     *)
(***************************************************************************)
EXTENDS Integers, Sequences, FiniteSets, TLC

VARIABLES
    tokens,         \* LexedTokens: the token sequence handed to Parser::new
    pos,            \* the cursor of token_iter: index of the next token
    statements,     \* parse_program: Vec<Statement>
    parse_errors,   \* parse_program: Vec<ParseError>
    pc,             \* control point of the run
    program,        \* the Program being evaluated (statements only)
    idx,            \* Program::eval: index of the next statement of the for loop
    object,         \* Program::eval: Option<Object>
    result,         \* what Program::eval returned (or that it panicked)
    trace,          \* the nodes whose own evaluation step ran, in that order
    overflow_checks \* the build's overflow-checks setting (debug: TRUE)

vars == <<tokens, pos, statements, parse_errors, pc, program, idx, object, result,
          trace, overflow_checks>>

-----------------------------------------------------------------------------
(* Bounds *)

MaxStmtLen == 4
MaxExprLen == 7
MaxChainLen == 5
MaxProgLen == 2
MaxOperand == 7
MaxBlockLen == 2
MaxParamLen == 4
MaxTermLen == 4

-----------------------------------------------------------------------------
(* Tokens *)

Tok(kind) == [k |-> kind, name |-> "", digits |-> <<>>]
IdentTok(n) == [k |-> "Ident", name |-> n, digits |-> <<>>]
IntTok(ds) == [k |-> "Int", name |-> "", digits |-> ds]
\* Option<Token>::None
NoToken == Tok("None")

-----------------------------------------------------------------------------
(* Results: Result<T, ParseError> together with the cursor left behind *)

Ok(v, p) == [ok |-> TRUE, val |-> v, pos |-> p]
Err(e, p) == [ok |-> FALSE, val |-> e, pos |-> p]

ParseError(kind, tok, expected) == [e |-> kind, tok |-> tok, expected |-> expected]
ExpectedToken == ParseError("ExpectedToken", NoToken, <<>>)
UnexpectedToken(expected, found) == ParseError("UnexpectedToken", found, expected)
NoPrefixExpression(tok) == ParseError("NoPrefixExpression", tok, <<>>)
NoInfixExpression(tok) == ParseError("NoInfixExpression", tok, <<>>)
ParseIntegerError(tok) == ParseError("ParseIntegerError", tok, <<>>)
NoPrefixPartner == ParseError("NoPrefixPartner", NoToken, <<>>)

-----------------------------------------------------------------------------
(* The token cursor *)

Peek(toks, p) == IF p <= Len(toks) THEN toks[p] ELSE NoToken

\* consume(): the next token, advancing; None at the end
Consume(toks, p) ==
    IF p <= Len(toks) THEN [tok |-> toks[p], pos |-> p + 1]
    ELSE [tok |-> NoToken, pos |-> p]

\* expect(): the next token, or ExpectedToken at the end
Expect(toks, p) ==
    IF p <= Len(toks) THEN Ok(toks[p], p + 1) ELSE Err(ExpectedToken, p)

\* expect_peek(kind): consume the next token when it is the expected one
ExpectPeek(toks, p, kind) ==
    IF Peek(toks, p).k = kind THEN Ok(toks[p], p + 1)
    ELSE Err(UnexpectedToken(<<kind>>, Peek(toks, p)), p)

\* optional_expect_peek(kind): consume the next token only when it is that one
OptionalExpectPeek(toks, p, kind) ==
    IF Peek(toks, p).k = kind THEN p + 1 ELSE p

NextTokenIs(toks, p, kind) == Peek(toks, p).k = kind

RECURSIVE IterateToNextStatement(_, _)
\* iterate_to_next_statement(): discard tokens through the next Period
IterateToNextStatement(toks, p) ==
    IF p > Len(toks) THEN p
    ELSE IF toks[p].k = "Period" THEN p + 1
    ELSE IterateToNextStatement(toks, p + 1)

-----------------------------------------------------------------------------
(* Token tables *)

PrecedenceOrder ==
    <<"Lowest", "Equals", "LessGreater", "Sum", "Product", "Prefix", "Call">>

\* Precedence derives PartialOrd: variants compare by declaration order
Rank(prec) == CHOOSE i \in 1..Len(PrecedenceOrder) : PrecedenceOrder[i] = prec

InfixKinds ==
    {"Plus", "Minus", "Asterisk", "Slash", "LessThan", "GreaterThan",
     "Equals", "NotEquals"}

\* Token::has_infix: HasInfix::Yes(operator) / HasInfix::No
HasInfix(tok) == tok.k \in InfixKinds

InfixOperator(tok) ==
    CASE tok.k = "Plus" -> "Plus"
      [] tok.k = "Minus" -> "Minus"
      [] tok.k = "Asterisk" -> "Multiply"
      [] tok.k = "Slash" -> "DividedBy"
      [] tok.k = "LessThan" -> "LessThan"
      [] tok.k = "GreaterThan" -> "GreaterThan"
      [] tok.k = "Equals" -> "Equals"
      [] tok.k = "NotEquals" -> "NotEquals"

\* Token::get_precedence
GetPrecedence(tok) ==
    CASE tok.k \in {"Equals", "NotEquals"} -> "Equals"
      [] tok.k \in {"LessThan", "GreaterThan"} -> "LessGreater"
      [] tok.k \in {"Plus", "Minus"} -> "Sum"
      [] tok.k \in {"Asterisk", "Slash"} -> "Product"
      [] OTHER -> "Lowest"

NextTokenHasInfix(toks, p) == HasInfix(Peek(toks, p))
NextTokenPrecedence(toks, p) == GetPrecedence(Peek(toks, p))

-----------------------------------------------------------------------------
(* AST *)

IntegerLiteral(n) == [t |-> "IntegerLiteral", n |-> n]
BooleanLiteral(b) == [t |-> "BooleanLiteral", b |-> b]
IdentifierLiteral(n) == [t |-> "IdentifierLiteral", name |-> n]
PrefixExpression(op, right) == [t |-> "Prefix", op |-> op, right |-> right]
InfixExpression(left, op, right) ==
    [t |-> "Infix", op |-> op, left |-> left, right |-> right]
\* alternative: Option<BlockStatement>, a sequence of zero or one block
IfExpression(cond, cons, alt) ==
    [t |-> "If", condition |-> cond, consequence |-> cons, alternative |-> alt]
FunctionLiteral(params, body) ==
    [t |-> "Function", parameters |-> params, body |-> body]

\* Expression::Call(_): the evaluator never looks inside
CallExpression == [t |-> "Call"]

ExpressionStatement(e) == [s |-> "Expression", name |-> "", e |-> e]
AssignStatement(n, e) == [s |-> "Assign", name |-> n, e |-> e]
ReturnStatement(e) == [s |-> "Return", name |-> "", e |-> e]

-----------------------------------------------------------------------------
(* Parser *)

I32Max == 2147483647

RECURSIVE DecimalValue(_)
\* the value of a digit string, or -1 once it exceeds i32::MAX
DecimalValue(ds) ==
    IF ds = <<>> THEN 0
    ELSE LET front == DecimalValue(SubSeq(ds, 1, Len(ds) - 1))
             d == ds[Len(ds)] IN
         IF front < 0 \/ front > (I32Max - d) \div 10 THEN -1
         ELSE 10 * front + d

\* str::parse::<i32> on the digits of an Int token: PosOverflow above i32::MAX
ParseI32(ds) ==
    IF DecimalValue(ds) >= 0 THEN [ok |-> TRUE, n |-> DecimalValue(ds)]
    ELSE [ok |-> FALSE, n |-> 0]

\* The parser's methods call one another recursively; every call goes through
\* Parse, which runs the body of the method named in the call.
RECURSIVE Parse(_)

ParseStatement(toks, p) ==
    Parse([f |-> "parse_statement", toks |-> toks, p |-> p])
ParseExpression(toks, p, current_token, precedence) ==
    Parse([f |-> "parse_expression", toks |-> toks, p |-> p,
           tok |-> current_token, prec |-> precedence])
ParseExpressionLoop(toks, p, left, precedence) ==
    Parse([f |-> "parse_expression_loop", toks |-> toks, p |-> p,
           left |-> left, prec |-> precedence])
ParsePrefixExpression(toks, p, token) ==
    Parse([f |-> "parse_prefix_expression", toks |-> toks, p |-> p, tok |-> token])
ParseInfixExpression(toks, p, left, token) ==
    Parse([f |-> "parse_infix_expression", toks |-> toks, p |-> p,
           left |-> left, tok |-> token])
CreateGroupedExpression(toks, p) ==
    Parse([f |-> "create_grouped_expression", toks |-> toks, p |-> p])
CreatePrefixExpression(toks, p, operator) ==
    Parse([f |-> "create_prefix_expression", toks |-> toks, p |-> p, op |-> operator])
ParseFunctionLiteral(toks, p) ==
    Parse([f |-> "parse_function_literal", toks |-> toks, p |-> p])
ParseFunctionParameters(toks, p, parameters) ==
    Parse([f |-> "parse_function_parameters", toks |-> toks, p |-> p,
           acc |-> parameters])
ParseIfExpression(toks, p) ==
    Parse([f |-> "parse_if_expression", toks |-> toks, p |-> p])
ParseBlockstatement(toks, p, block) ==
    Parse([f |-> "parse_blockstatement", toks |-> toks, p |-> p, acc |-> block])

ParseLiteral(toks, p) ==
    LET c == Consume(toks, p) IN
    IF c.tok.k = "Ident" THEN Ok(c.tok.name, c.pos)
    ELSE IF c.tok.k # "None" THEN Err(UnexpectedToken(<<"Ident">>, c.tok), c.pos)
    ELSE Err(ExpectedToken, c.pos)

\* the loop with <= for <: equal precedence would nest to the right
parse_expression_loop_le(toks, p, left, precedence) ==
    IF NextTokenHasInfix(toks, p)
       /\ Rank(precedence) <= Rank(NextTokenPrecedence(toks, p))
    THEN LET next_token == Expect(toks, p) IN
         IF ~next_token.ok THEN next_token
         ELSE LET r == ParseInfixExpression(toks, next_token.pos, left, next_token.val) IN
              IF r.ok THEN ParseExpressionLoop(toks, r.pos, r.val, precedence) ELSE r
    ELSE Ok(left, p)

\* the loop going on while there is a next token, whatever it is
parse_expression_loop_any_token(toks, p, left, precedence) ==
    IF Peek(toks, p).k # "None"
    THEN LET next_token == Expect(toks, p) IN
         IF ~next_token.ok THEN next_token
         ELSE LET r == ParseInfixExpression(toks, next_token.pos, left, next_token.val) IN
              IF r.ok THEN ParseExpressionLoop(toks, r.pos, r.val, precedence) ELSE r
    ELSE Ok(left, p)

\* the while loop of parse_expression, one iteration per unfolding
parse_expression_loop(toks, p, left, precedence) ==
    IF NextTokenHasInfix(toks, p)
       /\ Rank(precedence) < Rank(NextTokenPrecedence(toks, p))
    THEN LET next_token == Expect(toks, p) IN
         IF ~next_token.ok THEN next_token
         ELSE LET r == ParseInfixExpression(toks, next_token.pos, left, next_token.val) IN
              IF r.ok THEN ParseExpressionLoop(toks, r.pos, r.val, precedence) ELSE r
    ELSE Ok(left, p)

parse_expression(toks, p, current_token, precedence) ==
    LET left == ParsePrefixExpression(toks, p, current_token) IN
    IF ~left.ok THEN left
    ELSE ParseExpressionLoop(toks, left.pos, left.val, precedence)

parse_prefix_expression(toks, p, token) ==
    CASE token.k = "Ident" -> Ok(IdentifierLiteral(token.name), p)
      [] token.k = "Int" ->
            LET parsed == ParseI32(token.digits) IN
            IF parsed.ok THEN Ok(IntegerLiteral(parsed.n), p)
            ELSE Err(ParseIntegerError(token), p)
      [] token.k = "Bang" -> CreatePrefixExpression(toks, p, "Bang")
      [] token.k = "Minus" -> CreatePrefixExpression(toks, p, "Minus")
      [] token.k = "LParen" -> CreateGroupedExpression(toks, p)
      [] token.k = "If" -> ParseIfExpression(toks, p)
      [] token.k = "Func" -> ParseFunctionLiteral(toks, p)
      [] token.k = "True" -> Ok(BooleanLiteral(TRUE), p)
      [] token.k = "False" -> Ok(BooleanLiteral(FALSE), p)
      [] OTHER -> Err(NoPrefixExpression(token), p)

parse_infix_expression(toks, p, left, token) ==
    IF HasInfix(token)
    THEN LET precedence == GetPrecedence(token)
             next_token == Expect(toks, p) IN
         IF ~next_token.ok THEN next_token
         ELSE LET right == ParseExpression(toks, next_token.pos, next_token.val, precedence) IN
              IF ~right.ok THEN right
              ELSE Ok(InfixExpression(left, InfixOperator(token), right.val), right.pos)
    ELSE Err(NoInfixExpression(token), p)

\* a group parsed at the precedence of a prefix operand instead of Lowest
create_grouped_expression_tight(toks, p) ==
    LET next_token == Expect(toks, p) IN
    IF ~next_token.ok THEN next_token
    ELSE LET grouped_expression ==
                 ParseExpression(toks, next_token.pos, next_token.val, "Prefix")
             closing == ExpectPeek(toks, grouped_expression.pos, "RParen") IN
         IF ~closing.ok THEN closing
         ELSE [grouped_expression EXCEPT !.pos = closing.pos]

create_grouped_expression(toks, p) ==
    LET next_token == Expect(toks, p) IN
    IF ~next_token.ok THEN next_token
    ELSE LET grouped_expression ==
                 ParseExpression(toks, next_token.pos, next_token.val, "Lowest")
             closing == ExpectPeek(toks, grouped_expression.pos, "RParen") IN
         IF ~closing.ok THEN closing
         ELSE [grouped_expression EXCEPT !.pos = closing.pos]

create_prefix_expression(toks, p, operator) ==
    LET c == Consume(toks, p) IN
    IF c.tok.k = "None" THEN Err(NoPrefixPartner, c.pos)
    ELSE LET right == ParseExpression(toks, c.pos, c.tok, "Prefix") IN
         IF ~right.ok THEN right
         ELSE Ok(PrefixExpression(operator, right.val), right.pos)

parse_function_literal(toks, p) ==
    LET parameters == ParseFunctionParameters(toks, p, <<>>) IN
    IF ~parameters.ok THEN parameters
    ELSE LET colon == ExpectPeek(toks, parameters.pos, "Assign") IN
         IF ~colon.ok THEN colon
         ELSE LET body == ParseBlockstatement(toks, colon.pos, <<>>) IN
              IF ~body.ok THEN body
              ELSE LET closing == ExpectPeek(toks, body.pos, "Lasagna") IN
                   IF ~closing.ok THEN closing
                   ELSE Ok(FunctionLiteral(parameters.val, body.val), closing.pos)

\* the while-let loop of parse_function_parameters, one iteration per unfolding
parse_function_parameters(toks, p, parameters) ==
    LET c == Consume(toks, p) IN
    CASE c.tok.k = "None" -> Ok(parameters, c.pos)
      [] c.tok.k \in {"LParen", "Comma"} ->
            IF Peek(toks, c.pos).k = "RParen" THEN Ok(parameters, c.pos + 1)
            ELSE IF Peek(toks, c.pos).k # "None"
            THEN LET literal == ParseLiteral(toks, c.pos) IN
                 IF ~literal.ok THEN literal
                 ELSE ParseFunctionParameters(toks, literal.pos,
                                              Append(parameters, literal.val))
            ELSE Err(ExpectedToken, c.pos)
      [] c.tok.k = "RParen" -> Ok(parameters, c.pos)
      [] OTHER -> Err(UnexpectedToken(<<"Comma", "RParen">>, c.tok), c.pos)

parse_if_expression(toks, p) ==
    LET next_token == Expect(toks, p) IN
    IF ~next_token.ok THEN next_token
    ELSE
    LET condition == ParseExpression(toks, next_token.pos, next_token.val, "Lowest") IN
    IF ~condition.ok THEN condition
    ELSE
    LET colon == ExpectPeek(toks, condition.pos, "Assign") IN
    IF ~colon.ok THEN colon
    ELSE
    LET consequence == ParseBlockstatement(toks, colon.pos, <<>>) IN
    IF ~consequence.ok THEN consequence
    ELSE
    LET c == Consume(toks, consequence.pos) IN
    CASE c.tok.k = "Lasagna" ->
            Ok(IfExpression(condition.val, consequence.val, <<>>), c.pos)
      [] c.tok.k = "Else" ->
            LET else_colon == ExpectPeek(toks, c.pos, "Assign") IN
            IF ~else_colon.ok THEN else_colon
            ELSE LET else_block == ParseBlockstatement(toks, else_colon.pos, <<>>) IN
                 IF ~else_block.ok THEN else_block
                 ELSE LET closing == ExpectPeek(toks, else_block.pos, "Lasagna") IN
                      IF ~closing.ok THEN closing
                      ELSE Ok(IfExpression(condition.val, consequence.val,
                                           <<else_block.val>>), closing.pos)
      [] c.tok.k = "None" -> Err(ExpectedToken, c.pos)
      [] OTHER -> Err(UnexpectedToken(<<"Lasagna", "Else">>, c.tok), c.pos)

\* the block loop stopping at the block terminator only, not at `else`
parse_blockstatement_to_terminator(toks, p, block) ==
    IF ~NextTokenIs(toks, p, "Lasagna")
    THEN LET statement == ParseStatement(toks, p) IN
         IF ~statement.ok THEN statement
         ELSE ParseBlockstatement(toks, statement.pos, Append(block, statement.val))
    ELSE Ok(block, p)

\* the while loop of parse_blockstatement; a BlockStatement is its statements
parse_blockstatement(toks, p, block) ==
    IF ~NextTokenIs(toks, p, "Lasagna") /\ ~NextTokenIs(toks, p, "Else")
    THEN LET statement == ParseStatement(toks, p) IN
         IF ~statement.ok THEN statement
         ELSE ParseBlockstatement(toks, statement.pos, Append(block, statement.val))
    ELSE Ok(block, p)

ParseAssignStatement(toks, p, identifier) ==
    LET colon == ExpectPeek(toks, p, "Assign") IN
    IF ~colon.ok THEN colon
    ELSE LET next_token == Expect(toks, colon.pos) IN
         IF ~next_token.ok THEN next_token
         ELSE LET expression ==
                      ParseExpression(toks, next_token.pos, next_token.val, "Lowest") IN
              IF ~expression.ok THEN expression
              ELSE LET period == ExpectPeek(toks, expression.pos, "Period") IN
                   IF ~period.ok THEN period
                   ELSE Ok(AssignStatement(identifier, expression.val), period.pos)

ParseReturnStatement(toks, p) ==
    LET next_token == Expect(toks, p) IN
    IF ~next_token.ok THEN next_token
    ELSE LET expression ==
                 ParseExpression(toks, next_token.pos, next_token.val, "Lowest") IN
         IF ~expression.ok THEN expression
         ELSE LET period == ExpectPeek(toks, expression.pos, "Period") IN
              IF ~period.ok THEN period
              ELSE Ok(ReturnStatement(expression.val), period.pos)

ParseExpressionStatement(toks, p, current_token) ==
    LET expression == ParseExpression(toks, p, current_token, "Lowest") IN
    IF ~expression.ok THEN expression
    ELSE Ok(ExpressionStatement(expression.val),
            OptionalExpectPeek(toks, expression.pos, "Period"))

\* parse_statement without the look-ahead for the assignment token
parse_statement_no_lookahead(toks, p) ==
    LET c == Consume(toks, p) IN
    CASE c.tok.k = "Return" -> ParseReturnStatement(toks, c.pos)
      [] c.tok.k = "None" -> Err(ExpectedToken, c.pos)
      [] OTHER -> ParseExpressionStatement(toks, c.pos, c.tok)

parse_statement(toks, p) ==
    LET c == Consume(toks, p) IN
    CASE c.tok.k = "Return" -> ParseReturnStatement(toks, c.pos)
      [] c.tok.k = "Ident" ->
            IF Peek(toks, c.pos).k = "Assign"
            THEN ParseAssignStatement(toks, c.pos, c.tok.name)
            ELSE IF Peek(toks, c.pos).k # "None"
            THEN ParseExpressionStatement(toks, c.pos, c.tok)
            ELSE Err(ExpectedToken, c.pos)
      [] c.tok.k = "None" -> Err(ExpectedToken, c.pos)
      [] OTHER -> ParseExpressionStatement(toks, c.pos, c.tok)

Parse(call) ==
    CASE call.f = "parse_statement" -> parse_statement(call.toks, call.p)
      [] call.f = "parse_expression" ->
            parse_expression(call.toks, call.p, call.tok, call.prec)
      [] call.f = "parse_expression_loop" ->
            parse_expression_loop(call.toks, call.p, call.left, call.prec)
      [] call.f = "parse_prefix_expression" ->
            parse_prefix_expression(call.toks, call.p, call.tok)
      [] call.f = "parse_infix_expression" ->
            parse_infix_expression(call.toks, call.p, call.left, call.tok)
      [] call.f = "create_grouped_expression" ->
            create_grouped_expression(call.toks, call.p)
      [] call.f = "create_prefix_expression" ->
            create_prefix_expression(call.toks, call.p, call.op)
      [] call.f = "parse_function_literal" ->
            parse_function_literal(call.toks, call.p)
      [] call.f = "parse_function_parameters" ->
            parse_function_parameters(call.toks, call.p, call.acc)
      [] call.f = "parse_if_expression" -> parse_if_expression(call.toks, call.p)
      [] call.f = "parse_blockstatement" ->
            parse_blockstatement(call.toks, call.p, call.acc)

-----------------------------------------------------------------------------
(* Evaluator *)

Integer(n) == [o |-> "Integer", n |-> n, b |-> FALSE]
Boolean(b) == [o |-> "Boolean", n |-> 0, b |-> b]
\* Option<Object>::None
NoObject == [o |-> "None", n |-> 0, b |-> FALSE]

EvalError(kind, operator, left, right) ==
    [err |-> kind, op |-> operator, left |-> left, right |-> right]
EmptyProgram == EvalError("EmptyProgram", "", NoObject, NoObject)
InfixRightLeft(left, right) == EvalError("InfixRightLeft", "", left, right)
BooleanInfixOperator(operator) ==
    EvalError("BooleanInfixOperator", operator, NoObject, NoObject)
IntegerInfixOperatorError(operator) ==
    EvalError("IntegerInfixOperatorError", operator, NoObject, NoObject)
IncorrectBangSuffix(obj) == EvalError("IncorrectBangSuffix", "", obj, NoObject)

\* Result<Object, EvalError>, or the panic that unwinds out of eval
Value(v) == [r |-> "Ok", val |-> v, err |-> EmptyProgram, panic |-> ""]
Fail(e) == [r |-> "Err", val |-> NoObject, err |-> e, panic |-> ""]
Panic(msg) == [r |-> "Panic", val |-> NoObject, err |-> EmptyProgram, panic |-> msg]
NoResult == [r |-> "None", val |-> NoObject, err |-> EmptyProgram, panic |-> ""]

I32Min == -I32Max - 1

\* i32 arithmetic, written so that no intermediate value leaves the i32 range
AddOverflows(l, r) == (r > 0 /\ l > I32Max - r) \/ (r < 0 /\ l < I32Min - r)
WrappingAdd(l, r) ==
    IF r > 0 /\ l > I32Max - r THEN (l - I32Max - 1) + (r - I32Max - 1)
    ELSE IF r < 0 /\ l < I32Min - r THEN (l + I32Max + 1) + (r + I32Max + 1)
    ELSE l + r

SubOverflows(l, r) == (r < 0 /\ l > I32Max + r) \/ (r > 0 /\ l < I32Min + r)
WrappingSub(l, r) ==
    IF r < 0 /\ l > I32Max + r THEN (l - I32Max - 1) - (r + I32Max + 1)
    ELSE IF r > 0 /\ l < I32Min + r THEN (l + I32Max + 1) - (r - I32Max - 1)
    ELSE l - r

WrappingNeg(x) == IF x = I32Min THEN I32Min ELSE -x

\* a quotient rounded toward negative infinity
FloorDiv(l, r) == IF r > 0 THEN l \div r ELSE (-l) \div (-r)

\* i32 `/`: the quotient truncated toward zero (r # 0, not i32::MIN / -1)
TruncDivPos(l, r) ==
    IF l >= 0 \/ l % r = 0 THEN l \div r ELSE (l \div r) + 1
TruncDiv(l, r) ==
    IF r > 0 THEN TruncDivPos(l, r)
    ELSE IF r = I32Min THEN (IF l = I32Min THEN 1 ELSE 0)
    ELSE -TruncDivPos(l, -r)

Twice(x) == WrappingAdd(x, x)
\* l times a hexadecimal digit d, from the doublings of l
DigitMul(l, d) ==
    LET part(k, x) == IF (d \div k) % 2 = 1 THEN x ELSE 0 IN
    WrappingAdd(WrappingAdd(part(1, l), part(2, Twice(l))),
                WrappingAdd(part(4, Twice(Twice(l))),
                            part(8, Twice(Twice(Twice(l))))))
RECURSIVE WrappingMul(_, _)
\* the product modulo 2^32, one hexadecimal digit of r at a time
WrappingMul(l, r) ==
    IF r = 0 THEN 0
    ELSE IF r = I32Min THEN (IF l % 2 = 0 THEN 0 ELSE I32Min)
    ELSE IF r < 0 THEN WrappingNeg(WrappingMul(l, -r))
    ELSE LET high == WrappingMul(l, r \div 16) IN
         WrappingAdd(Twice(Twice(Twice(Twice(high)))), DigitMul(l, r % 16))
MulOverflows(l, r) ==
    /\ l # 0
    /\ r # 0
    /\ IF l = -1 THEN r = I32Min
       ELSE IF r = -1 THEN l = I32Min
       ELSE TruncDiv(WrappingMul(l, r), l) # r

\* the outcome of an i32 `+ - *` or negation: an overflow panics with overflow
\* checks on and wraps without them
Arith(overflows, wrapped, checks) ==
    IF overflows /\ checks THEN Panic("arithmetic overflow")
    ELSE Value(Integer(wrapped))

\* the integer dispatch with the operands of the subtraction exchanged
EvalIntegerInfixExpressionReversed(left_integer, right_integer, operator, checks) ==
    CASE operator = "Minus" ->
            Arith(SubOverflows(right_integer, left_integer),
                  WrappingSub(right_integer, left_integer), checks)
      [] operator = "Plus" ->
            Arith(AddOverflows(left_integer, right_integer),
                  WrappingAdd(left_integer, right_integer), checks)
      [] operator = "Multiply" ->
            Arith(MulOverflows(left_integer, right_integer),
                  WrappingMul(left_integer, right_integer), checks)
      [] operator = "DividedBy" ->
            IF right_integer = 0 THEN Panic("attempt to divide by zero")
            ELSE IF left_integer = I32Min /\ right_integer = -1
            THEN Panic("attempt to divide with overflow")
            ELSE Value(Integer(TruncDiv(left_integer, right_integer)))
      [] operator = "LessThan" -> Value(Boolean(left_integer < right_integer))
      [] operator = "GreaterThan" -> Value(Boolean(left_integer > right_integer))
      [] operator = "Equals" -> Value(Boolean(left_integer = right_integer))
      [] operator = "NotEquals" -> Value(Boolean(left_integer # right_integer))
      [] OTHER -> Fail(IntegerInfixOperatorError(operator))

EvalIntegerInfixExpression(left_integer, right_integer, operator, checks) ==
    CASE operator = "Minus" ->
            Arith(SubOverflows(left_integer, right_integer),
                  WrappingSub(left_integer, right_integer), checks)
      [] operator = "Plus" ->
            Arith(AddOverflows(left_integer, right_integer),
                  WrappingAdd(left_integer, right_integer), checks)
      [] operator = "Multiply" ->
            Arith(MulOverflows(left_integer, right_integer),
                  WrappingMul(left_integer, right_integer), checks)
      [] operator = "DividedBy" ->
            IF right_integer = 0 THEN Panic("attempt to divide by zero")
            ELSE IF left_integer = I32Min /\ right_integer = -1
            THEN Panic("attempt to divide with overflow")
            ELSE Value(Integer(TruncDiv(left_integer, right_integer)))
      [] operator = "LessThan" -> Value(Boolean(left_integer < right_integer))
      [] operator = "GreaterThan" -> Value(Boolean(left_integer > right_integer))
      [] operator = "Equals" -> Value(Boolean(left_integer = right_integer))
      [] operator = "NotEquals" -> Value(Boolean(left_integer # right_integer))
      [] OTHER -> Fail(IntegerInfixOperatorError(operator))

EvalBooleanInfixExpression(left_boolean, right_boolean, operator) ==
    CASE operator = "Equals" -> Value(Boolean(left_boolean = right_boolean))
      [] operator = "NotEquals" -> Value(Boolean(left_boolean # right_boolean))
      [] OTHER -> Fail(BooleanInfixOperator(operator))

\* the dispatch with the operands of the mismatch error exchanged
EvalInfixExpressionSwapped(operator, left, right, checks) ==
    CASE left.o = "Integer" /\ right.o = "Integer" ->
            EvalIntegerInfixExpression(left.n, right.n, operator, checks)
      [] left.o = "Boolean" /\ right.o = "Boolean" ->
            EvalBooleanInfixExpression(left.b, right.b, operator)
      [] OTHER -> Fail(InfixRightLeft(right, left))

EvalInfixExpression(operator, left, right, checks) ==
    CASE left.o = "Integer" /\ right.o = "Integer" ->
            EvalIntegerInfixExpression(left.n, right.n, operator, checks)
      [] left.o = "Boolean" /\ right.o = "Boolean" ->
            EvalBooleanInfixExpression(left.b, right.b, operator)
      [] OTHER -> Fail(InfixRightLeft(left, right))

EvalMinusOperatorExpression(right, checks) ==
    IF right.o = "Integer"
    THEN Arith(right.n = I32Min, WrappingNeg(right.n), checks)
    ELSE Fail(IncorrectBangSuffix(right))

EvalBangOperatorExpression(right) ==
    IF right.o = "Boolean" THEN Value(Boolean(~right.b))
    ELSE Fail(IncorrectBangSuffix(right))

\* an evaluation with the nodes whose own step ran (a literal's construction,
\* a prefix or infix dispatch, a todo!()), in the order they ran
Traced(outcome, tr) == [out |-> outcome, trace |-> tr]

RECURSIVE EvalExpression(_, _)
RECURSIVE EvalPrefixExpression(_, _, _)

EvalPrefixExpression(node, right, checks) ==
    LET r == EvalExpression(right, checks) IN
    IF r.out.r # "Ok" THEN r
    ELSE Traced(IF node.op = "Bang" THEN EvalBangOperatorExpression(r.out.val)
                ELSE EvalMinusOperatorExpression(r.out.val, checks),
                Append(r.trace, node))

\* an Infix arm that evaluates its right operand before its left one
EvalExpressionRightFirst(node, checks) ==
    CASE node.t = "IntegerLiteral" -> Traced(Value(Integer(node.n)), <<node>>)
      [] node.t = "IdentifierLiteral" -> Traced(Panic("not yet implemented"), <<node>>)
      [] node.t = "BooleanLiteral" -> Traced(Value(Boolean(node.b)), <<node>>)
      [] node.t = "Prefix" -> EvalPrefixExpression(node, node.right, checks)
      [] node.t = "Infix" ->
            LET right == EvalExpression(node.right, checks) IN
            IF right.out.r # "Ok" THEN right
            ELSE LET left == EvalExpression(node.left, checks) IN
                 IF left.out.r # "Ok"
                 THEN Traced(left.out, right.trace \o left.trace)
                 ELSE Traced(EvalInfixExpression(node.op, left.out.val,
                                                 right.out.val, checks),
                             Append(right.trace \o left.trace, node))
      [] OTHER -> Traced(Panic("not yet implemented"), <<node>>)

EvalExpression(node, checks) ==
    CASE node.t = "IntegerLiteral" -> Traced(Value(Integer(node.n)), <<node>>)
      [] node.t = "IdentifierLiteral" -> Traced(Panic("not yet implemented"), <<node>>)
      [] node.t = "BooleanLiteral" -> Traced(Value(Boolean(node.b)), <<node>>)
      [] node.t = "Prefix" -> EvalPrefixExpression(node, node.right, checks)
      [] node.t = "Infix" ->
            LET left == EvalExpression(node.left, checks) IN
            IF left.out.r # "Ok" THEN left
            ELSE LET right == EvalExpression(node.right, checks) IN
                 IF right.out.r # "Ok"
                 THEN Traced(right.out, left.trace \o right.trace)
                 ELSE Traced(EvalInfixExpression(node.op, left.out.val,
                                                 right.out.val, checks),
                             Append(left.trace \o right.trace, node))
      [] OTHER -> Traced(Panic("not yet implemented"), <<node>>)

EvalStatement(statement, checks) ==
    IF statement.s = "Expression" THEN EvalExpression(statement.e, checks)
    ELSE Traced(Panic("not yet implemented"), <<>>)

-----------------------------------------------------------------------------
(* Parser::parse_program as a function, and the rendering of a Program *)

RECURSIVE ParseProgramLoop(_, _, _, _)
\* the while loop of parse_program, one statement per unfolding
ParseProgramLoop(toks, p, sts, errs) ==
    IF Peek(toks, p).k = "None"
    THEN [statements |-> sts, parse_errors |-> errs]
    ELSE LET r == ParseStatement(toks, p) IN
         IF r.ok THEN ParseProgramLoop(toks, r.pos, Append(sts, r.val), errs)
         ELSE ParseProgramLoop(toks, IterateToNextStatement(toks, r.pos), sts,
                               Append(errs, r.val))
ParseProgram(toks) == ParseProgramLoop(toks, 1, <<>>, <<>>)

RECURSIVE DecimalDigits(_)
\* the decimal digits of a natural number, most significant first
DecimalDigits(n) ==
    IF n < 10 THEN <<n>> ELSE Append(DecimalDigits(n \div 10), n % 10)

\* the token an infix operator is written with
OperatorToken(op) == CHOOSE t \in {Tok(k) : k \in InfixKinds} : InfixOperator(t) = op

RECURSIVE RenderExpression(_)
\* the canonical rendering, as the tokens of its text: (left op right),
\* (op operand), a literal as itself
RenderExpression(e) ==
    CASE e.t = "IntegerLiteral" -> <<IntTok(DecimalDigits(e.n))>>
      [] e.t = "BooleanLiteral" -> <<Tok(IF e.b THEN "True" ELSE "False")>>
      [] e.t = "IdentifierLiteral" -> <<IdentTok(e.name)>>
      [] e.t = "Prefix" ->
            <<Tok("LParen"), Tok(e.op)>> \o RenderExpression(e.right)
            \o <<Tok("RParen")>>
      [] e.t = "Infix" ->
            <<Tok("LParen")>> \o RenderExpression(e.left)
            \o <<OperatorToken(e.op)>> \o RenderExpression(e.right)
            \o <<Tok("RParen")>>
RECURSIVE RenderProgram(_)
\* the renderings of the statements, one per line
RenderProgram(sts) ==
    IF sts = <<>> THEN <<>>
    ELSE RenderExpression(Head(sts).e) \o RenderProgram(Tail(sts))

-----------------------------------------------------------------------------
(* Inputs *)

SeqsUpTo(S, n) == UNION {[1..k -> S] : k \in 0..n}

\* statement-level sources: every token sequence over these tokens
StmtAlphabet ==
    {IdentTok("a"), IdentTok("b"), IntTok(<<1>>), Tok("Assign"), Tok("Period"),
     Tok("Return"), Tok("Minus")}

RECURSIVE Operands(_, _, _, _)
RECURSIVE WellFormed(_, _, _, _)
\* the operands of exactly n tokens: an atom, a prefixed operand, a group
Operands(n, atoms, prefixes, infixes) ==
    (IF n = 1 THEN {<<a>> : a \in atoms} ELSE {})
    \cup (IF n >= 2
          THEN {<<q>> \o o : q \in prefixes,
                              o \in Operands(n - 1, atoms, prefixes, infixes)}
          ELSE {})
    \cup (IF n >= 3
          THEN {<<Tok("LParen")>> \o e \o <<Tok("RParen")>> :
                    e \in WellFormed(n - 2, atoms, prefixes, infixes)}
          ELSE {})
\* the expressions of exactly n tokens: operands joined by infix operators
WellFormed(n, atoms, prefixes, infixes) ==
    Operands(n, atoms, prefixes, infixes)
    \cup UNION {{l \o <<b>> \o r :
                    l \in Operands(i, atoms, prefixes, infixes),
                    b \in infixes,
                    r \in WellFormed(n - 1 - i, atoms, prefixes, infixes)} :
               i \in 1..(n - 2)}

RemoveAt(seq, i) == SubSeq(seq, 1, i - 1) \o SubSeq(seq, i + 1, Len(seq))
\* a source with one of its right parentheses left out
Unclosed(S) ==
    UNION {{RemoveAt(e, i) : i \in {j \in 1..Len(e) : e[j].k = "RParen"}} : e \in S}

ExprAtoms == {IdentTok("a"), IntTok(<<1>>)}
ExprPrefixes == {Tok("Bang"), Tok("Minus")}
\* one infix operator of each precedence level
ExprInfixes == {Tok("Equals"), Tok("LessThan"), Tok("Plus"), Tok("Asterisk")}
AllInfixes == {Tok(k) : k \in InfixKinds}
\* expression sources: up to long tokens over one operator of each level and
\* the prefix -, up to short tokens over every prefix and infix operator
ExprSources(long, short) ==
    UNION {WellFormed(n, ExprAtoms, {Tok("Minus")}, ExprInfixes) : n \in 1..long}
    \cup UNION {WellFormed(n, ExprAtoms, ExprPrefixes, AllInfixes) : n \in 1..short}

\* arithmetic sources: integer literals, unary minus, the four arithmetic
\* operators, a comparison and an equality, with groups
ArithAtoms == {IntTok(<<2>>), IntTok(<<1, 0>>)}
ArithInfixes ==
    {Tok("Plus"), Tok("Minus"), Tok("Asterisk"), Tok("Slash"), Tok("LessThan"),
     Tok("Equals")}
ArithSources(n) ==
    UNION {WellFormed(k, ArithAtoms, {Tok("Minus")}, ArithInfixes) : k \in 1..n}

\* programs handed to Program::eval
EvalLeaves ==
    {IntegerLiteral(2), IntegerLiteral(0), IntegerLiteral(I32Max),
     BooleanLiteral(TRUE), BooleanLiteral(FALSE), IdentifierLiteral("a")}
PrefixOperators == {"Bang", "Minus"}
Operators == {InfixOperator(Tok(k)) : k \in InfixKinds}
\* a leaf, or one operator on leaves
EvalShallow ==
    EvalLeaves
    \cup {PrefixExpression(op, e) : op \in PrefixOperators, e \in EvalLeaves}
    \cup {InfixExpression(l, op, r) : l \in EvalLeaves, op \in Operators,
                                      r \in EvalLeaves}
\* operands that succeed, fail or panic
EvalOperands ==
    {IntegerLiteral(2), IdentifierLiteral("a"),
     PrefixExpression("Bang", BooleanLiteral(TRUE)),
     PrefixExpression("Minus", BooleanLiteral(TRUE)),
     InfixExpression(IntegerLiteral(2), "Plus", BooleanLiteral(TRUE)),
     InfixExpression(IntegerLiteral(2), "DividedBy", IntegerLiteral(0))}
EvalNested ==
    {PrefixExpression(op, e) : op \in PrefixOperators, e \in EvalOperands}
    \cup {InfixExpression(l, op, r) : l \in EvalOperands, op \in {"Plus", "Equals"},
                                      r \in EvalOperands}
EvalStatements ==
    {ExpressionStatement(e) : e \in EvalOperands}
    \cup {AssignStatement("a", IntegerLiteral(2)), ReturnStatement(IntegerLiteral(2))}
\* every one-statement program over the expressions above, and every program
\* of up to n of the statements above
Programs(n) ==
    {<<ExpressionStatement(e)>> : e \in EvalShallow \cup EvalNested}
    \cup SeqsUpTo(EvalStatements, n)

\* integer operands: the small ones, some whose products leave the i32
\* range, and the ends of the range
IntegerOperands(n) ==
    (-n..n) \cup {I32Min, I32Min + 1, -65536, 46341, 65536, I32Max}
\* one infix expression on two integer literals, or on a Boolean
InfixPrograms(n) ==
    LET operands == {IntegerLiteral(i) : i \in IntegerOperands(n)}
                    \cup {BooleanLiteral(TRUE)} IN
    {<<ExpressionStatement(InfixExpression(l, op, r))>> :
        l \in operands, op \in Operators, r \in operands}

\* one prefix expression: on an integer or Boolean literal, on a prefix
\* expression of one, on the difference that is i32::MIN, on a failing
\* operand and on an identifier
PrefixPrograms(n) ==
    LET literals == {IntegerLiteral(i) : i \in IntegerOperands(n)}
                    \cup {BooleanLiteral(TRUE), BooleanLiteral(FALSE)}
        operands ==
            literals
            \cup {PrefixExpression(op, e) : op \in PrefixOperators, e \in literals}
            \cup {InfixExpression(PrefixExpression("Minus", IntegerLiteral(I32Max)),
                                  "Minus", IntegerLiteral(1)),
                  IdentifierLiteral("a")} IN
    {<<ExpressionStatement(PrefixExpression(op, e))>> :
        op \in PrefixOperators, e \in operands}

\* statements with and without a construct the evaluator does not implement
UnimplementedStatements ==
    LET two == IntegerLiteral(2)
        block == <<ExpressionStatement(two)>> IN
    {ExpressionStatement(e) :
        e \in {two,
               InfixExpression(two, "Plus", BooleanLiteral(TRUE)),
               IdentifierLiteral("a"),
               IfExpression(BooleanLiteral(TRUE), block, <<>>),
               FunctionLiteral(<<>>, block),
               CallExpression,
               InfixExpression(two, "Plus", IdentifierLiteral("a")),
               PrefixExpression("Minus", IfExpression(BooleanLiteral(TRUE), block, <<block>>))}}
    \cup {AssignStatement("a", two), ReturnStatement(two)}

\* programs of expression statements: one expression with or without its
\* period, and two short expressions with theirs
RenderSources(n) ==
    LET long == UNION {WellFormed(k, ExprAtoms, ExprPrefixes, AllInfixes) : k \in 1..n}
        short == UNION {WellFormed(k, ExprAtoms, ExprPrefixes, AllInfixes) : k \in 1..2} IN
    long
    \cup {e \o <<Tok("Period")>> : e \in long}
    \cup {a \o <<Tok("Period")>> \o b \o <<Tok("Period")>> : a \in short, b \in short}

\* sources built together with the tree they denote: [src, ast]
Case(src, ast) == [src |-> src, ast |-> ast]
IfConditions ==
    {Case(<<IdentTok("a")>>, IdentifierLiteral("a")),
     Case(<<IntTok(<<1>>), Tok("LessThan"), IdentTok("a")>>,
          InfixExpression(IntegerLiteral(1), "LessThan", IdentifierLiteral("a")))}
\* statements, with and without the optional period
SimpleStatements ==
    {Case(<<IntTok(<<1>>), Tok("Period")>>, ExpressionStatement(IntegerLiteral(1))),
     Case(<<IdentTok("a")>>, ExpressionStatement(IdentifierLiteral("a"))),
     Case(<<IdentTok("b"), Tok("Assign"), IntTok(<<1>>), Tok("Period")>>,
          AssignStatement("b", IntegerLiteral(1))),
     Case(<<Tok("Return"), IdentTok("a"), Tok("Period")>>,
          ReturnStatement(IdentifierLiteral("a")))}
RECURSIVE BlocksOf(_, _)
\* the blocks of up to n of the statements
BlocksOf(stmts, n) ==
    IF n = 0 THEN {Case(<<>>, <<>>)}
    ELSE LET shorter == BlocksOf(stmts, n - 1) IN
         shorter \cup {Case(b.src \o st.src, Append(b.ast, st.ast)) :
                           b \in shorter, st \in stmts}
\* if c : B ~
IfThen(c, b) ==
    Case(<<Tok("If")>> \o c.src \o <<Tok("Assign")>> \o b.src \o <<Tok("Lasagna")>>,
         IfExpression(c.ast, b.ast, <<>>))
\* if c : B else : B2 ~
IfThenElse(c, b, b2) ==
    Case(<<Tok("If")>> \o c.src \o <<Tok("Assign")>> \o b.src
             \o <<Tok("Else"), Tok("Assign")>> \o b2.src \o <<Tok("Lasagna")>>,
         IfExpression(c.ast, b.ast, <<b2.ast>>))
\* if-expressions as statements of a block
NestedIfStatements ==
    LET c == Case(<<IdentTok("a")>>, IdentifierLiteral("a"))
        one == Case(<<IntTok(<<1>>), Tok("Period")>>,
                    <<ExpressionStatement(IntegerLiteral(1))>>)
        a == Case(<<IdentTok("a")>>, <<ExpressionStatement(IdentifierLiteral("a"))>>)
        nested == {IfThen(c, one), IfThenElse(c, a, one)} IN
    {Case(i.src, ExpressionStatement(i.ast)) : i \in nested}
\* the if-expressions over blocks of up to MaxBlockLen statements, an
\* alternative being empty or one statement
IfCases ==
    LET stmts == SimpleStatements \cup NestedIfStatements
        blocks == BlocksOf(stmts, MaxBlockLen)
        short == BlocksOf(stmts, 1) IN
    {IfThen(c, b) : c \in IfConditions, b \in blocks}
    \cup {IfThenElse(c, b, b2) : c \in IfConditions, b \in blocks, b2 \in short}
\* each as the one statement of a program, with and without its period, and
\* without its last block terminator
IfSources ==
    {c.src : c \in IfCases}
    \cup {c.src \o <<Tok("Period")>> : c \in IfCases}
    \cup {SubSeq(c.src, 1, Len(c.src) - 1) : c \in IfCases}

\* what may stand between `fn` and the colon
ParamAlphabet ==
    {Tok("LParen"), Tok("RParen"), Tok("Comma"), IdentTok("a"), IdentTok("b")}
FunctionBodies ==
    {Case(<<>>, <<>>),
     Case(<<IntTok(<<1>>), Tok("Period")>>, <<ExpressionStatement(IntegerLiteral(1))>>),
     Case(<<IdentTok("a")>>, <<ExpressionStatement(IdentifierLiteral("a"))>>)}
\* fn, up to n tokens, then `: body ~`; and the same cut off before the colon
FunctionSources(n) ==
    LET lists == SeqsUpTo(ParamAlphabet, n) IN
    {<<Tok("Func")>> \o ps \o <<Tok("Assign")>> \o b.src \o <<Tok("Lasagna")>> :
         ps \in lists, b \in FunctionBodies}
    \cup {<<Tok("Func")>> \o ps : ps \in lists}

\* the openings of a nested block: an if branch, an else branch, a function body
BlockOpenings ==
    {<<Tok("If"), IdentTok("a"), Tok("Assign")>>,
     <<Tok("If"), IdentTok("a"), Tok("Assign"), IntTok(<<1>>), Tok("Period"),
       Tok("Else"), Tok("Assign")>>,
     <<Tok("Func"), Tok("LParen"), Tok("RParen"), Tok("Assign")>>}
\* statements of a block; those with `*` are invalid, `*` having no prefix
\* meaning
NestedStatements ==
    {<<IntTok(<<1>>), Tok("Period")>>,
     <<IdentTok("b"), Tok("Assign"), IntTok(<<1>>), Tok("Period")>>,
     <<Tok("Asterisk"), Tok("Period")>>,
     <<Tok("Asterisk")>>,
     <<Tok("LParen"), IntTok(<<1>>), Tok("Asterisk"), Tok("Period")>>}
RECURSIVE Concatenations(_, _)
\* the concatenations of up to n of the sequences
Concatenations(S, n) ==
    IF n = 0 THEN {<<>>}
    ELSE LET shorter == Concatenations(S, n - 1) IN
         shorter \cup {a \o b : a \in shorter, b \in S}
\* one top-level statement with a nested block of up to n statements, closed
\* and ended by its period, and the statement `2 .` after it
NestedSources(n) ==
    {open \o block \o <<Tok("Lasagna"), Tok("Period"), IntTok(<<2>>), Tok("Period")>> :
         open \in BlockOpenings, block \in Concatenations(NestedStatements, n)}

\* the tokens that open, continue and close nested constructs
TermAlphabet ==
    {Tok("If"), Tok("Else"), Tok("Func"), Tok("LParen"), Tok("RParen"),
     Tok("Assign"), Tok("Lasagna"), Tok("Period"), Tok("Plus"), IdentTok("a")}

-----------------------------------------------------------------------------
(* The run: Parser::parse_program, then Program::eval *)

EmptyProgramValue == [statements |-> <<>>, parse_errors |-> <<>>]

InitWith(sources, builds) ==
    /\ tokens \in sources
    /\ pos = 1
    /\ statements = <<>>
    /\ parse_errors = <<>>
    /\ pc = "parse"
    /\ program = EmptyProgramValue
    /\ idx = 1
    /\ object = NoObject
    /\ result = NoResult
    /\ trace = <<>>
    /\ overflow_checks \in builds

\* the parser never reads overflow_checks: one build stands for both
Init == InitWith(SeqsUpTo(StmtAlphabet, MaxStmtLen), {TRUE})
InitExpr ==
    LET sources == ExprSources(MaxExprLen, MaxChainLen) IN
    InitWith(sources \cup Unclosed(sources), {TRUE})

\* eval::eval on arithmetic sources, and on two with a group left open
InitArith ==
    InitWith(ArithSources(MaxExprLen)
             \cup Unclosed(WellFormed(3, ArithAtoms, {}, {})), {TRUE})
\* Program::eval on a Program, in a build with or without overflow checks
InitEval ==
    /\ tokens = <<>>
    /\ pos = 1
    /\ statements = <<>>
    /\ parse_errors = <<>>
    /\ pc = "eval"
    /\ program \in {[statements |-> p, parse_errors |-> <<>>] : p \in Programs(MaxProgLen)}
    /\ idx = 1
    /\ object = NoObject
    /\ result = NoResult
    /\ trace = <<>>
    /\ overflow_checks \in BOOLEAN

\* Program::eval on one infix expression of integer literals
InitInt ==
    /\ tokens = <<>>
    /\ pos = 1
    /\ statements = <<>>
    /\ parse_errors = <<>>
    /\ pc = "eval"
    /\ program \in {[statements |-> p, parse_errors |-> <<>>] : p \in InfixPrograms(MaxOperand)}
    /\ idx = 1
    /\ object = NoObject
    /\ result = NoResult
    /\ trace = <<>>
    /\ overflow_checks \in BOOLEAN

\* Program::eval on one prefix expression
InitPrefix ==
    /\ tokens = <<>>
    /\ pos = 1
    /\ statements = <<>>
    /\ parse_errors = <<>>
    /\ pc = "eval"
    /\ program \in {[statements |-> p, parse_errors |-> <<>>] : p \in PrefixPrograms(MaxOperand)}
    /\ idx = 1
    /\ object = NoObject
    /\ result = NoResult
    /\ trace = <<>>
    /\ overflow_checks \in BOOLEAN

\* Program::eval on programs of implemented and unimplemented constructs
InitUnimplemented ==
    /\ tokens = <<>>
    /\ pos = 1
    /\ statements = <<>>
    /\ parse_errors = <<>>
    /\ pc = "eval"
    /\ program \in {[statements |-> p, parse_errors |-> <<>>] :
                        p \in SeqsUpTo(UnimplementedStatements, MaxProgLen)}
    /\ idx = 1
    /\ object = NoObject
    /\ result = NoResult
    /\ trace = <<>>
    /\ overflow_checks \in BOOLEAN

InitIf == InitWith(IfSources, {TRUE})
InitFunction == InitWith(FunctionSources(MaxParamLen), {TRUE})
InitNested == InitWith(NestedSources(MaxBlockLen), {TRUE})
\* before Parser::new is given its tokens
InitTerm ==
    /\ tokens = <<>>
    /\ pos = 1
    /\ statements = <<>>
    /\ parse_errors = <<>>
    /\ pc = "new"
    /\ program = EmptyProgramValue
    /\ idx = 1
    /\ object = NoObject
    /\ result = NoResult
    /\ trace = <<>>
    /\ overflow_checks = TRUE
InitRender == InitWith(RenderSources(MaxChainLen), {TRUE})

evalVars == <<program, idx, object, result, trace, overflow_checks>>

\* the lexer adds a token to the sequence it will hand over
Lex ==
    /\ pc = "new"
    /\ Len(tokens) < MaxTermLen
    /\ \E t \in TermAlphabet : tokens' = Append(tokens, t)
    /\ UNCHANGED <<pos, statements, parse_errors, pc, evalVars>>

\* Parser::new on the token sequence
NewParser ==
    /\ pc = "new"
    /\ pc' = "parse"
    /\ UNCHANGED <<tokens, pos, statements, parse_errors, evalVars>>

\* the Ok iteration, had parse_statement read the tokens without consuming them
StatementLoopOkPeeking ==
    /\ pc = "parse"
    /\ Peek(tokens, pos).k # "None"
    /\ LET r == ParseStatement(tokens, pos) IN
       /\ r.ok
       /\ statements' = Append(statements, r.val)
    /\ UNCHANGED <<tokens, pos, parse_errors, pc, evalVars>>

\* an iteration of the while loop whose parse_statement returned Ok
StatementLoopOk ==
    /\ pc = "parse"
    /\ Peek(tokens, pos).k # "None"
    /\ LET r == ParseStatement(tokens, pos) IN
       /\ r.ok
       /\ statements' = Append(statements, r.val)
       /\ pos' = r.pos
    /\ UNCHANGED <<tokens, parse_errors, pc, evalVars>>

\* the Err iteration, were recovery to start the statement list afresh
StatementLoopErrDiscarding ==
    /\ pc = "parse"
    /\ Peek(tokens, pos).k # "None"
    /\ LET r == ParseStatement(tokens, pos) IN
       /\ ~r.ok
       /\ pos' = IterateToNextStatement(tokens, r.pos)
       /\ parse_errors' = Append(parse_errors, r.val)
    /\ statements' = <<>>
    /\ UNCHANGED <<tokens, pc, evalVars>>

\* an iteration of the while loop whose parse_statement returned Err
StatementLoopErr ==
    /\ pc = "parse"
    /\ Peek(tokens, pos).k # "None"
    /\ LET r == ParseStatement(tokens, pos) IN
       /\ ~r.ok
       /\ pos' = IterateToNextStatement(tokens, r.pos)
       /\ parse_errors' = Append(parse_errors, r.val)
    /\ UNCHANGED <<tokens, statements, pc, evalVars>>

\* the loop exit: Program { statements, parse_errors }
ReturnProgram ==
    /\ pc = "parse"
    /\ Peek(tokens, pos).k = "None"
    /\ program' = [statements |-> statements, parse_errors |-> parse_errors]
    /\ pc' = "parsed"
    /\ UNCHANGED <<tokens, pos, statements, parse_errors, idx, object, result,
                   trace, overflow_checks>>

\* eval::eval: a Program without parse errors is evaluated
StartEval ==
    /\ pc = "parsed"
    /\ program.parse_errors = <<>>
    /\ pc' = "eval"
    /\ UNCHANGED <<tokens, pos, statements, parse_errors, evalVars>>

parseVars == <<tokens, pos, statements, parse_errors>>

\* a second Parser, on the rendering of a Program without parse errors
Reparse ==
    /\ pc = "parsed"
    /\ program.parse_errors = <<>>
    /\ LET text == RenderProgram(program.statements)
           again == ParseProgram(text) IN
       /\ tokens' = text
       /\ pos' = Len(text) + 1
       /\ statements' = again.statements
       /\ parse_errors' = again.parse_errors
    /\ pc' = "reparsed"
    /\ UNCHANGED <<program, idx, object, result, trace, overflow_checks>>

\* the Ok iteration, were the first value kept instead of the latest
EvalLoopOkKeepingFirst ==
    /\ pc = "eval"
    /\ idx <= Len(program.statements)
    /\ LET r == EvalStatement(program.statements[idx], overflow_checks) IN
       /\ r.out.r = "Ok"
       /\ object' = IF object.o = "None" THEN r.out.val ELSE object
       /\ trace' = trace \o r.trace
    /\ idx' = idx + 1
    /\ UNCHANGED <<parseVars, pc, program, result, overflow_checks>>

\* an iteration of the for loop whose statement.eval() returned Ok
EvalLoopOk ==
    /\ pc = "eval"
    /\ idx <= Len(program.statements)
    /\ LET r == EvalStatement(program.statements[idx], overflow_checks) IN
       /\ r.out.r = "Ok"
       /\ object' = r.out.val
       /\ trace' = trace \o r.trace
    /\ idx' = idx + 1
    /\ UNCHANGED <<parseVars, pc, program, result, overflow_checks>>

\* an iteration whose statement.eval() returned Err: `?` returns it
EvalLoopErr ==
    /\ pc = "eval"
    /\ idx <= Len(program.statements)
    /\ LET r == EvalStatement(program.statements[idx], overflow_checks) IN
       /\ r.out.r = "Err"
       /\ result' = r.out
       /\ trace' = trace \o r.trace
    /\ pc' = "done"
    /\ UNCHANGED <<parseVars, program, idx, object, overflow_checks>>

\* an iteration whose statement.eval() panicked
EvalLoopPanic ==
    /\ pc = "eval"
    /\ idx <= Len(program.statements)
    /\ LET r == EvalStatement(program.statements[idx], overflow_checks) IN
       /\ r.out.r = "Panic"
       /\ result' = r.out
       /\ trace' = trace \o r.trace
    /\ pc' = "panicked"
    /\ UNCHANGED <<parseVars, program, idx, object, overflow_checks>>

\* after the loop: match object
EvalReturn ==
    /\ pc = "eval"
    /\ idx > Len(program.statements)
    /\ result' = IF object.o = "None" THEN Fail(EmptyProgram) ELSE Value(object)
    /\ pc' = "done"
    /\ UNCHANGED <<parseVars, program, idx, object, trace, overflow_checks>>

NextParse ==
    \/ StatementLoopOk
    \/ StatementLoopErr
    \/ ReturnProgram

NextEval ==
    \/ EvalLoopOk
    \/ EvalLoopErr
    \/ EvalLoopPanic
    \/ EvalReturn

NextTerm ==
    \/ Lex
    \/ NewParser
    \/ NextParse

NextRender ==
    \/ NextParse
    \/ Reparse

Next ==
    \/ NextParse
    \/ StartEval
    \/ NextEval

\* Parser::parse_program on statement-level sources
Spec == Init /\ [][NextParse]_vars
\* Parser::parse_program on expression sources
SpecExpr == InitExpr /\ [][NextParse]_vars
\* eval::eval on arithmetic sources: parse, then evaluate
SpecArith == InitArith /\ [][Next]_vars
\* Program::eval on programs
SpecEval == InitEval /\ [][NextEval]_vars
\* Program::eval on integer infix expressions
SpecInt == InitInt /\ [][NextEval]_vars
\* Parser::parse_program on if-expressions
SpecIf == InitIf /\ [][NextParse]_vars
\* Parser::parse_program on function literals, well and ill formed
SpecFunction == InitFunction /\ [][NextParse]_vars
\* Parser::parse_program on statements with a nested block, valid or not
SpecNested == InitNested /\ [][NextParse]_vars
\* weak fairness of the iterations of the while loop, its enabling condition
\* written as the loop condition and an iteration as a step that changes one
\* of the two lists: while peek() is Some, iterations keep being made
StatementLoopFairness ==
    \/ []<>(pc # "parse" \/ Peek(tokens, pos).k = "None")
    \/ []<><<pc = "parse">>_<<statements, parse_errors>>
\* Parser::parse_program run to its end, on every sequence of the tokens of
\* nested constructs: the parser is sequential code, a step that can be taken
\* is taken
SpecTerm ==
    /\ InitTerm
    /\ [][NextTerm]_vars
    /\ WF_vars(NewParser)
    /\ WF_vars(ReturnProgram)
    /\ StatementLoopFairness
\* parse, render, parse again
SpecRender == InitRender /\ [][NextRender]_vars
\* Program::eval on prefix expressions
SpecPrefix == InitPrefix /\ [][NextEval]_vars
\* Program::eval on programs with unimplemented constructs
SpecUnimplemented == InitUnimplemented /\ [][NextEval]_vars

-----------------------------------------------------------------------------
(* The grammar of the specification, stated on token sequences without the  *)
(* parser: what a valid statement is and which tree an expression denotes.  *)

IsAtom(t) == t.k \in {"Ident", "Int", "True", "False"}
IsPrefixOp(t) == t.k \in {"Bang", "Minus"}
IsInfixOp(t) == t.k \in InfixKinds

\* the binding level the precedence table gives an infix operator
Level(t) ==
    CASE t.k \in {"Equals", "NotEquals"} -> 1
      [] t.k \in {"LessThan", "GreaterThan"} -> 2
      [] t.k \in {"Plus", "Minus"} -> 3
      [] t.k \in {"Asterisk", "Slash"} -> 4

RECURSIVE ChainFrom(_, _, _)
ChainFrom(seg, i, want_operand) ==
    IF i > Len(seg) THEN ~want_operand
    ELSE IF want_operand
    THEN IF IsPrefixOp(seg[i]) THEN ChainFrom(seg, i + 1, TRUE)
         ELSE IsAtom(seg[i]) /\ ChainFrom(seg, i + 1, FALSE)
    ELSE IsInfixOp(seg[i]) /\ ChainFrom(seg, i + 1, TRUE)

\* operands, each with optional prefix operators, joined by infix operators
IsChain(seg) == seg # <<>> /\ ChainFrom(seg, 1, TRUE)

\* the number of parentheses still open before position i
Depth(seg, i) ==
    Cardinality({j \in 1..(i - 1) : seg[j].k = "LParen"})
    - Cardinality({j \in 1..(i - 1) : seg[j].k = "RParen"})

\* position i holds an infix operator joining two operands of seg itself
JoinsAt(seg, i) ==
    /\ i > 1
    /\ IsInfixOp(seg[i])
    /\ IsAtom(seg[i - 1]) \/ seg[i - 1].k = "RParen"
    /\ Depth(seg, i) = 0

\* the operator applied last: the lowest level, and of those the rightmost
SplitAt(seg) ==
    CHOOSE i \in 1..Len(seg) :
        /\ JoinsAt(seg, i)
        /\ \A j \in 1..Len(seg) : JoinsAt(seg, j) =>
               \/ Level(seg[j]) > Level(seg[i])
               \/ Level(seg[j]) = Level(seg[i]) /\ j <= i

RECURSIVE Tree(_)
\* the tree a well-formed expression denotes
Tree(seg) ==
    IF \E i \in 1..Len(seg) : JoinsAt(seg, i)
    THEN LET i == SplitAt(seg) IN
         InfixExpression(Tree(SubSeq(seg, 1, i - 1)), InfixOperator(seg[i]),
                         Tree(SubSeq(seg, i + 1, Len(seg))))
    ELSE IF IsPrefixOp(seg[1])
    THEN PrefixExpression(seg[1].k, Tree(SubSeq(seg, 2, Len(seg))))
    ELSE IF seg[1].k = "LParen" THEN Tree(SubSeq(seg, 2, Len(seg) - 1))
    ELSE IF seg[1].k = "Ident" THEN IdentifierLiteral(seg[1].name)
    ELSE IF seg[1].k = "Int" THEN IntegerLiteral(DecimalValue(seg[1].digits))
    ELSE BooleanLiteral(seg[1].k = "True")

RECURSIVE IsExpr(_)
\* a well-formed expression: operands joined by infix operators, an operand
\* being an atom, a prefixed operand or a parenthesised expression
IsExpr(seg) ==
    IF seg = <<>> THEN FALSE
    ELSE IF \E i \in 1..Len(seg) : JoinsAt(seg, i)
    THEN LET i == SplitAt(seg) IN
         IsExpr(SubSeq(seg, 1, i - 1)) /\ IsExpr(SubSeq(seg, i + 1, Len(seg)))
    ELSE IF IsPrefixOp(seg[1]) THEN IsExpr(SubSeq(seg, 2, Len(seg)))
    ELSE IF seg[1].k = "LParen"
    THEN Len(seg) >= 3 /\ seg[Len(seg)].k = "RParen"
         /\ IsExpr(SubSeq(seg, 2, Len(seg) - 1))
    ELSE Len(seg) = 1 /\ IsAtom(seg[1])

InsertAt(seg, i, t) == SubSeq(seg, 1, i - 1) \o <<t>> \o SubSeq(seg, i, Len(seg))
\* a well-formed expression but for one right parenthesis that is missing
IsUnclosed(seg) ==
    /\ ~IsExpr(seg)
    /\ \E i \in 2..(Len(seg) + 1) : IsExpr(InsertAt(seg, i, Tok("RParen")))

\* parse_statement hands every expression to parse_expression, but a lone
\* identifier at the end of the input, which it rejects itself (see C3)
ReachesParseExpression(toks) == ~(Len(toks) = 1 /\ toks[1].k = "Ident")

\* 16-bit magnitudes: their sums, differences and products fit in 32 bits
Short(n) == -32768 <= n /\ n <= 32767
Magnitude(n) == IF n < 0 THEN -n ELSE n
\* the quotient truncated toward zero: the quotient of the magnitudes, with
\* the sign of the product
Quotient(l, r) ==
    LET q == Magnitude(l) \div Magnitude(r) IN
    IF (l < 0) = (r < 0) THEN q ELSE -q

\* the sum, the difference, the product of l and r lie in the i32 range
SumFits(l, r) == IF r >= 0 THEN l <= I32Max - r ELSE l >= I32Min - r
DifferenceFits(l, r) == IF r >= 0 THEN l >= I32Min + r ELSE l <= I32Max + r
ProductFits(l, r) ==
    IF l = 0 \/ r = 0 \/ l = 1 \/ r = 1 THEN TRUE
    ELSE IF l = -1 THEN r # I32Min
    ELSE IF r = -1 THEN l # I32Min
    ELSE IF l > 0 /\ r > 0 THEN l <= I32Max \div r
    ELSE IF l < 0 /\ r < 0
    THEN l # I32Min /\ r # I32Min /\ -l <= I32Max \div (-r)
    ELSE LET negative == IF l < 0 THEN l ELSE r
             positive == IF l < 0 THEN r ELSE l IN
         \* negative * positive >= I32Min
         negative >= (I32Min \div positive)
                     + (IF I32Min % positive = 0 THEN 0 ELSE 1)
\* minus the magnitude: unlike the magnitude, it is in range for every i32
NegMagnitude(n) == IF n > 0 THEN -n ELSE n
\* q is the quotient of l by r truncated toward zero: the remainder is
\* smaller in magnitude than r and is zero or has the sign of l
IsTruncatedQuotient(q, l, r) ==
    /\ ProductFits(q, r)
    /\ DifferenceFits(l, q * r)
    /\ LET m == l - q * r IN
       /\ NegMagnitude(m) > NegMagnitude(r)
       /\ m = 0 \/ (m > 0) = (l > 0)

RECURSIVE Conventional(_)
\* the value conventional arithmetic and logic give a tree; NoObject where
\* they give none (a zero divisor, a type mismatch, an identifier) or where
\* an operand is not Short
Conventional(t) ==
    CASE t.t = "IntegerLiteral" -> Integer(t.n)
      [] t.t = "BooleanLiteral" -> Boolean(t.b)
      [] t.t = "Prefix" ->
            LET v == Conventional(t.right) IN
            IF t.op = "Minus" /\ v.o = "Integer" /\ Short(v.n) THEN Integer(-v.n)
            ELSE IF t.op = "Bang" /\ v.o = "Boolean" THEN Boolean(~v.b)
            ELSE NoObject
      [] t.t = "Infix" ->
            LET l == Conventional(t.left)
                r == Conventional(t.right) IN
            IF l.o = "Integer" /\ r.o = "Integer" /\ Short(l.n) /\ Short(r.n)
            THEN CASE t.op = "Plus" -> Integer(l.n + r.n)
                   [] t.op = "Minus" -> Integer(l.n - r.n)
                   [] t.op = "Multiply" -> Integer(l.n * r.n)
                   [] t.op = "DividedBy" ->
                         IF r.n = 0 THEN NoObject ELSE Integer(Quotient(l.n, r.n))
                   [] t.op = "LessThan" -> Boolean(l.n < r.n)
                   [] t.op = "GreaterThan" -> Boolean(l.n > r.n)
                   [] t.op = "Equals" -> Boolean(l.n = r.n)
                   [] t.op = "NotEquals" -> Boolean(l.n # r.n)
                   [] OTHER -> NoObject
            ELSE IF l.o = "Boolean" /\ r.o = "Boolean" /\ t.op = "Equals"
            THEN Boolean(l.b = r.b)
            ELSE IF l.o = "Boolean" /\ r.o = "Boolean" /\ t.op = "NotEquals"
            THEN Boolean(l.b # r.b)
            ELSE NoObject
      [] OTHER -> NoObject

RECURSIVE Denoted(_)
\* the value an operand denotes: a literal's own, a prefix expression's by
\* negation where the negation exists, NoObject otherwise
Denoted(t) ==
    CASE t.t = "IntegerLiteral" -> Integer(t.n)
      [] t.t = "BooleanLiteral" -> Boolean(t.b)
      [] t.t = "Prefix" ->
            LET v == Denoted(t.right) IN
            IF t.op = "Bang" /\ v.o = "Boolean" THEN Boolean(~v.b)
            ELSE IF t.op = "Minus" /\ v.o = "Integer" /\ v.n # I32Min
            THEN Integer(-v.n)
            ELSE NoObject
      [] OTHER -> NoObject

RECURSIVE HasUnimplemented(_)
\* an expression with an Identifier, If, Function or Call node
HasUnimplemented(node) ==
    CASE node.t \in {"IdentifierLiteral", "If", "Function", "Call"} -> TRUE
      [] node.t = "Prefix" -> HasUnimplemented(node.right)
      [] node.t = "Infix" ->
            HasUnimplemented(node.left) \/ HasUnimplemented(node.right)
      [] OTHER -> FALSE
\* a program with an Assign or Return statement or such an expression
IsUnimplemented(sts) ==
    \E i \in 1..Len(sts) :
        sts[i].s \in {"Assign", "Return"} \/ HasUnimplemented(sts[i].e)

RECURSIVE PostOrder(_)
\* the nodes of an expression, operands before their operator, left before
\* right
PostOrder(node) ==
    CASE node.t = "Prefix" -> Append(PostOrder(node.right), node)
      [] node.t = "Infix" ->
            Append(PostOrder(node.left) \o PostOrder(node.right), node)
      [] OTHER -> <<node>>
RECURSIVE ProgramOrder(_)
\* the nodes of the expression statements of a program, in program order
ProgramOrder(sts) ==
    IF sts = <<>> THEN <<>>
    ELSE (IF Head(sts).s = "Expression" THEN PostOrder(Head(sts).e) ELSE <<>>)
         \o ProgramOrder(Tail(sts))
IsPrefixOf(a, b) == Len(a) <= Len(b) /\ SubSeq(b, 1, Len(a)) = a

IsAssignBody(seg) ==
    Len(seg) >= 3 /\ seg[1].k = "Ident" /\ seg[2].k = "Assign"
    /\ IsChain(SubSeq(seg, 3, Len(seg)))
IsReturnBody(seg) ==
    Len(seg) >= 2 /\ seg[1].k = "Return" /\ IsChain(SubSeq(seg, 2, Len(seg)))
\* a statement without its terminator
IsStatementBody(seg) == IsChain(seg) \/ IsAssignBody(seg) \/ IsReturnBody(seg)

StatementOf(seg) ==
    IF IsAssignBody(seg)
    THEN AssignStatement(seg[1].name, Tree(SubSeq(seg, 3, Len(seg))))
    ELSE IF IsReturnBody(seg) THEN ReturnStatement(Tree(SubSeq(seg, 2, Len(seg))))
    ELSE ExpressionStatement(Tree(seg))

RECURSIVE Segments(_)
\* the token runs between the periods of a source that ends with a period
Segments(toks) ==
    IF toks = <<>> THEN <<>>
    ELSE LET i == CHOOSE i \in 1..Len(toks) :
                      toks[i].k = "Period" /\ \A j \in 1..(i - 1) : toks[j].k # "Period" IN
         <<SubSeq(toks, 1, i - 1)>> \o Segments(SubSeq(toks, i + 1, Len(toks)))

\* an invalid statement no front part of which is a statement of its own
\* (an expression statement needs no terminator)
IsInvalidBody(seg) ==
    /\ seg # <<>>
    /\ ~IsStatementBody(seg)
    /\ \A n \in 1..Len(seg) : ~IsChain(SubSeq(seg, 1, n))

\* valid and invalid statements, each ended by the period
IsInterleaved(toks) ==
    /\ toks # <<>>
    /\ toks[Len(toks)].k = "Period"
    /\ \A i \in DOMAIN Segments(toks) :
           IsStatementBody(Segments(toks)[i]) \/ IsInvalidBody(Segments(toks)[i])

RECURSIVE ValidStatements(_)
ValidStatements(segs) ==
    IF segs = <<>> THEN <<>>
    ELSE (IF IsStatementBody(Head(segs)) THEN <<StatementOf(Head(segs))>> ELSE <<>>)
         \o ValidStatements(Tail(segs))

InvalidCount(segs) == Cardinality({i \in DOMAIN segs : IsInvalidBody(segs[i])})

-----------------------------------------------------------------------------
(* Claims *)

\* C1: for N invalid statements interleaved with M valid ones, each ended by
\* the period, parse_program returns exactly N parse errors and exactly the M
\* statements in their original order; no valid statement is swallowed by the
\* resynchronisation.
C1_ErrorRecovery ==
    (pc = "parsed" /\ IsInterleaved(tokens)) =>
        /\ Len(program.parse_errors) = InvalidCount(Segments(tokens))
        /\ program.statements = ValidStatements(Segments(tokens))

\* C2: every iteration of the statement loop appends exactly one element to
\* exactly one of the two lists and leaves the other as it was; the lists never
\* shrink or reorder, and the returned Program holds both lists as they stand.
C2_AppendOnly ==
    [][pc = "parse" =>
        \/ /\ statements' # statements
           /\ Len(statements') = Len(statements) + 1
           /\ SubSeq(statements', 1, Len(statements)) = statements
           /\ parse_errors' = parse_errors
           /\ pc' = "parse"
        \/ /\ parse_errors' # parse_errors
           /\ Len(parse_errors') = Len(parse_errors) + 1
           /\ SubSeq(parse_errors', 1, Len(parse_errors)) = parse_errors
           /\ statements' = statements
           /\ pc' = "parse"
        \/ /\ pc' = "parsed"
           /\ program'.statements = statements
           /\ program'.parse_errors = parse_errors
           /\ statements' = statements
           /\ parse_errors' = parse_errors]_vars

\* a Program returned with a statement parsed before an error and one after it
C2_Witness ==
    /\ pc = "parsed"
    /\ Len(tokens) = 4
    /\ tokens[1].k = "Int" /\ tokens[2].k = "Assign"
    /\ tokens[3].k = "Period" /\ tokens[4].k = "Int"
    /\ Len(program.statements) = 2
    /\ Len(program.parse_errors) = 1

\* C3: an expression e alone and e followed by a period both parse to the one
\* Expression statement and no error; `identifier : e` and `return e` without
\* the period give a parse error and no statement.
C3_TerminatorOptional ==
    pc = "parsed" =>
        LET e == IF tokens # <<>> /\ tokens[Len(tokens)].k = "Period"
                 THEN SubSeq(tokens, 1, Len(tokens) - 1) ELSE tokens IN
        /\ IsChain(e) =>
               /\ program.statements = <<ExpressionStatement(Tree(e))>>
               /\ program.parse_errors = <<>>
        /\ (IsAssignBody(tokens) \/ IsReturnBody(tokens)) =>
               /\ program.statements = <<>>
               /\ Len(program.parse_errors) = 1

\* C4: a parsed statement is a Return statement iff its first token is the
\* return keyword, an Assign statement (with that identifier's name) iff its
\* first token is an identifier followed by the assignment token, and an
\* Expression statement otherwise.
C4_KindByLeadingTokens ==
    [][(pc = "parse" /\ Len(statements') = Len(statements) + 1) =>
        LET parsed == statements'[Len(statements')]
            first == Peek(tokens, pos)
            second == Peek(tokens, pos + 1) IN
        /\ parsed.s = "Return" <=> first.k = "Return"
        /\ parsed.s = "Assign" <=> (first.k = "Ident" /\ second.k = "Assign")
        /\ parsed.s = "Assign" => parsed.name = first.name
        /\ parsed.s = "Expression" <=>
               ~(first.k = "Return" \/ (first.k = "Ident" /\ second.k = "Assign"))]_vars

\* a Program whose statement `b : 1 .` was parsed as an Assign statement to b
C4_Witness ==
    /\ pc = "parsed"
    /\ Len(tokens) = 4
    /\ tokens[1] = IdentTok("b") /\ tokens[2].k = "Assign"
    /\ program.statements = <<AssignStatement("b", IntegerLiteral(1))>>

\* C5: for operands joined by binary operators, with optional prefix ! or -,
\* parse_expression builds the tree of the precedence table: a tighter
\* operator nests inside its looser neighbour, equal precedence nests to the
\* left, and a prefix operator applies to the operand right after it.
C5_PrecedenceTree ==
    IsChain(tokens) =>
        /\ ParseExpression(tokens, 2, tokens[1], "Lowest")
               = Ok(Tree(tokens), Len(tokens) + 1)
        /\ (pc = "parsed" /\ ReachesParseExpression(tokens)) =>
               /\ program.statements = <<ExpressionStatement(Tree(tokens))>>
               /\ program.parse_errors = <<>>

\* `a + 1 * a` parsed as (a + (1 * a))
C5_Witness ==
    /\ pc = "parsed"
    /\ Len(tokens) = 5
    /\ tokens[2].k = "Plus" /\ tokens[4].k = "Asterisk"
    /\ Len(program.statements) = 1
    /\ program.statements[1].e.t = "Infix"
    /\ program.statements[1].e.op = "Plus"
    /\ program.statements[1].e.right.t = "Infix"
    /\ program.statements[1].e.right.op = "Multiply"

\* C6: a parenthesised sub-expression is parsed on its own and is one operand
\* of the expression around it, whatever the outer operators; when the token
\* after the inner expression is not a right parenthesis there is a parse
\* error and no expression.
C6_Grouping ==
    pc = "parsed" =>
        /\ (IsExpr(tokens) /\ \E i \in 1..Len(tokens) : tokens[i].k = "LParen") =>
               /\ program.statements = <<ExpressionStatement(Tree(tokens))>>
               /\ program.parse_errors = <<>>
        /\ IsUnclosed(tokens) =>
               /\ program.statements = <<>>
               /\ Len(program.parse_errors) = 1

\* `a * ( a + 1 )` parsed with the whole sum as the right operand of *
C6_Witness ==
    /\ pc = "parsed"
    /\ Len(tokens) = 7
    /\ tokens[2].k = "Asterisk" /\ tokens[3].k = "LParen" /\ tokens[5].k = "Plus"
    /\ Len(program.statements) = 1
    /\ program.statements[1].e.op = "Multiply"
    /\ program.statements[1].e.right.t = "Infix"
    /\ program.statements[1].e.right.op = "Plus"

\* C7: for an expression of integer literals, unary minus, + - * / and
\* parentheses, without overflow or zero divisor, evaluating the parsed source
\* gives the Integer of conventional arithmetic (* and / before + and -, left
\* to right at equal precedence, parentheses first, / truncating); likewise
\* the Boolean of a comparison or an equality.
C7_ConventionalArithmetic ==
    (IsExpr(tokens) /\ Conventional(Tree(tokens)).o # "None") =>
        /\ pc = "parsed" => program.parse_errors = <<>>
        /\ pc # "panicked"
        /\ pc = "done" => result = Value(Conventional(Tree(tokens)))

\* `10 / ( 2 - 10 )` evaluates to -1
C7_Witness ==
    /\ pc = "done"
    /\ Len(tokens) = 7
    /\ tokens[1] = IntTok(<<1, 0>>) /\ tokens[2].k = "Slash"
    /\ tokens[3].k = "LParen" /\ tokens[5].k = "Minus"
    /\ result = Value(Integer(-1))

\* C8: Program evaluation evaluates the statements in program order and, when
\* none fails, returns the value of the last statement, whatever the earlier
\* values; a Program without statements evaluates to the error EmptyProgram.
C8_LastStatementValue ==
    LET sts == program.statements
        outcome(i) == EvalStatement(sts[i], overflow_checks).out IN
    /\ (pc = "done" /\ sts = <<>>) => result = Fail(EmptyProgram)
    /\ (pc \in {"done", "panicked"} /\ sts # <<>>
            /\ \A i \in 1..Len(sts) : outcome(i).r = "Ok") =>
           /\ pc = "done"
           /\ result = Value(outcome(Len(sts)).val)
           /\ trace = ProgramOrder(sts)

\* two statements of different values: the second value is returned
C8_Witness ==
    /\ pc = "done"
    /\ Len(program.statements) = 2
    /\ result.r = "Ok"
    /\ result.val # EvalStatement(program.statements[1], overflow_checks).out.val

\* C9: evaluation stops at the first EvalError in evaluation order (statements
\* in program order; in an Infix node the left operand, the right operand,
\* then the dispatch): that error is returned, nothing after it is evaluated
\* and no Value is returned; a right operand is evaluated whenever its left
\* operand succeeded.
C9_StopsAtFirstError ==
    (pc = "done" /\ program.statements # <<>>) =>
        LET order == ProgramOrder(program.statements)
            step(i) == EvalExpression(trace[i], overflow_checks).out IN
        /\ IsPrefixOf(trace, order)
        /\ result.r = "Ok" => trace = order
        /\ result.r = "Err" =>
               /\ trace # <<>>
               /\ \A i \in 1..(Len(trace) - 1) : step(i).r = "Ok"
               /\ step(Len(trace)).r = "Err"
               /\ result = step(Len(trace))
               /\ result.val = NoObject

\* the dispatch of `2 + true` fails after both operands were evaluated, and
\* the statement after it is never evaluated
C9_Witness ==
    /\ pc = "done"
    /\ result.r = "Err"
    /\ Len(program.statements) = 2
    /\ idx = 1
    /\ program.statements[1].s = "Expression"
    /\ program.statements[1].e.t = "Infix"
    /\ trace = <<IntegerLiteral(2), BooleanLiteral(TRUE), program.statements[1].e>>

\* C10: an infix evaluation returns a Value only for Integer with Integer, or
\* for Boolean with Boolean under == or !=; Boolean with Boolean under another
\* operator fails with BooleanInfixOperator of that operator; Integer with
\* Boolean and Boolean with Integer fail with InfixRightLeft of the left value
\* and the right value, in that order and unchanged.
C10_InfixDispatch ==
    (/\ pc \in {"done", "panicked"}
     /\ Len(program.statements) = 1
     /\ program.statements[1].s = "Expression"
     /\ program.statements[1].e.t = "Infix"
     /\ Conventional(program.statements[1].e.left).o # "None"
     /\ Conventional(program.statements[1].e.right).o # "None") =>
        LET e == program.statements[1].e
            left == Conventional(e.left)
            right == Conventional(e.right)
            booleans == left.o = "Boolean" /\ right.o = "Boolean" IN
        /\ result.r = "Ok" =>
               \/ left.o = "Integer" /\ right.o = "Integer"
               \/ booleans /\ e.op \in {"Equals", "NotEquals"}
        /\ (booleans /\ e.op \in {"Equals", "NotEquals"}) => result.r = "Ok"
        /\ (booleans /\ e.op \notin {"Equals", "NotEquals"}) =>
               result = Fail(BooleanInfixOperator(e.op))
        /\ left.o # right.o => result = Fail(InfixRightLeft(left, right))

\* `!true + 2` fails with InfixRightLeft(Boolean(false), Integer(2))
C10_Witness ==
    /\ pc = "done"
    /\ Len(program.statements) = 1
    /\ program.statements[1].s = "Expression"
    /\ program.statements[1].e.t = "Infix"
    /\ program.statements[1].e.left.t = "Prefix"
    /\ result = Fail(InfixRightLeft(Boolean(FALSE), Integer(2)))

\* C11: for Integer operands l and r whose result fits in the i32 range (and
\* r # 0, for a division) eval_integer_infix_expression returns Integer(l + r),
\* Integer(l - r), Integer(l * r), the Integer of the quotient truncated
\* toward zero, negative operands included, and Boolean(l < r), Boolean(l > r),
\* Boolean(l = r), Boolean(l # r).
C11_IntegerInfix ==
    (/\ pc \in {"done", "panicked"}
     /\ Len(program.statements) = 1
     /\ program.statements[1].e.t = "Infix"
     /\ program.statements[1].e.left.t = "IntegerLiteral"
     /\ program.statements[1].e.right.t = "IntegerLiteral") =>
        LET op == program.statements[1].e.op
            l == program.statements[1].e.left.n
            r == program.statements[1].e.right.n IN
        /\ (op = "Plus" /\ SumFits(l, r)) => result = Value(Integer(l + r))
        /\ (op = "Minus" /\ DifferenceFits(l, r)) => result = Value(Integer(l - r))
        /\ (op = "Multiply" /\ ProductFits(l, r)) => result = Value(Integer(l * r))
        /\ (op = "DividedBy" /\ r # 0 /\ ~(l = I32Min /\ r = -1)) =>
               /\ result.r = "Ok"
               /\ result.val.o = "Integer"
               /\ IsTruncatedQuotient(result.val.n, l, r)
        /\ op = "LessThan" => result = Value(Boolean(l < r))
        /\ op = "GreaterThan" => result = Value(Boolean(l > r))
        /\ op = "Equals" => result = Value(Boolean(l = r))
        /\ op = "NotEquals" => result = Value(Boolean(l # r))

\* -7 / 2 is -3
C11_Witness ==
    /\ pc = "done"
    /\ program.statements
           = <<ExpressionStatement(InfixExpression(IntegerLiteral(-7), "DividedBy",
                                                   IntegerLiteral(2)))>>
    /\ result = Value(Integer(-3))

\* C12: prefix evaluation evaluates the operand first; then Bang on Boolean(b)
\* returns Boolean(not b) and on another value fails with IncorrectBangSuffix
\* of that value, Minus on Integer(n) returns Integer(-n) and on another
\* value fails with the same error kind; so Bang applied twice to a Boolean
\* returns that Boolean.
C12_PrefixEvaluation ==
    (/\ pc \in {"done", "panicked"}
     /\ program.statements[1].e.t = "Prefix"
     /\ Denoted(program.statements[1].e.right).o # "None") =>
        LET e == program.statements[1].e
            v == Denoted(e.right) IN
        /\ trace = PostOrder(e)
        /\ (e.op = "Bang" /\ v.o = "Boolean") => result = Value(Boolean(~v.b))
        /\ (e.op = "Bang" /\ v.o # "Boolean") => result = Fail(IncorrectBangSuffix(v))
        /\ (e.op = "Minus" /\ v.o = "Integer") =>
               /\ result.r = "Ok"
               /\ result.val.o = "Integer"
               /\ SumFits(result.val.n, v.n)
               /\ result.val.n + v.n = 0
        /\ (e.op = "Minus" /\ v.o # "Integer") => result = Fail(IncorrectBangSuffix(v))
        /\ (e.op = "Bang" /\ e.right.t = "Prefix" /\ e.right.op = "Bang") =>
               result = Value(Denoted(e.right.right))

\* C13: evaluating a Program with an unimplemented construct (an Assign or
\* Return statement, an Identifier, If, Function or Call expression) returns
\* an error of the EvalError taxonomy: the process is not terminated and no
\* Value is returned.
C13_UnimplementedIsAnError ==
    (pc \in {"done", "panicked"} /\ IsUnimplemented(program.statements)) =>
        /\ pc = "done"
        /\ result.r = "Err"

\* C14: for a valid program of literals, prefix and infix expressions and
\* groups, parsing the canonical rendering of its AST gives an AST equal to
\* the original one.
C14_RenderRoundTrip ==
    pc = "reparsed" =>
        /\ parse_errors = <<>>
        /\ statements = program.statements

\* C15: `if c : B ~` parses to an If node of condition c and consequence B
\* without alternative, `if c : B else : B2 ~` to one with alternative B2; a
\* block holds the statements, in source order, before the first `~` or `else`
\* that no nested construct consumes, and not that token.
C15_IfExpression ==
    pc = "parsed" =>
        \A c \in IfCases :
            (tokens = c.src \/ tokens = c.src \o <<Tok("Period")>>) =>
                /\ program.statements = <<ExpressionStatement(c.ast)>>
                /\ program.parse_errors = <<>>

\* a consequence of two statements, the second a nested if-expression, and
\* an alternative
C15_Witness ==
    /\ pc = "parsed"
    /\ program.parse_errors = <<>>
    /\ Len(program.statements) = 1
    /\ program.statements[1].e.t = "If"
    /\ Len(program.statements[1].e.consequence) = 2
    /\ program.statements[1].e.consequence[2].e.t = "If"
    /\ Len(program.statements[1].e.alternative) = 1

\* the tokens between `fn` and the first colon, or the end of the source
ParameterPart(toks) ==
    LET colons == {i \in 1..Len(toks) : toks[i].k = "Assign"}
        last == IF colons = {} THEN Len(toks)
                ELSE (CHOOSE i \in colons : \A j \in colons : i <= j) - 1 IN
    SubSeq(toks, 2, last)
\* ( p1 , ... , pn ) with n >= 0 identifiers
IsParameterList(ps) ==
    /\ Len(ps) >= 2
    /\ ps[1].k = "LParen"
    /\ ps[Len(ps)].k = "RParen"
    /\ \/ Len(ps) = 2
       \/ /\ Len(ps) % 2 = 1
          /\ \A i \in 2..(Len(ps) - 1) :
                 ps[i].k = (IF i % 2 = 0 THEN "Ident" ELSE "Comma")
ParametersOf(ps) == [i \in 1..((Len(ps) - 1) \div 2) |-> ps[2 * i].name]
\* the source goes on with `: body ~` after its parameter part
HasBody(toks) ==
    \E b \in FunctionBodies :
        toks = <<Tok("Func")>> \o ParameterPart(toks) \o <<Tok("Assign")>>
                   \o b.src \o <<Tok("Lasagna")>>
BodyOf(toks) ==
    (CHOOSE b \in FunctionBodies :
        toks = <<Tok("Func")>> \o ParameterPart(toks) \o <<Tok("Assign")>>
                   \o b.src \o <<Tok("Lasagna")>>).ast

\* C16: `fn ( p1 , ... , pn ) : body ~` with identifier parameters parses to
\* the Function node of those parameters and that body; when what stands
\* between `fn` and the colon is not such a list, a parse error is produced
\* and no Function node.
C16_FunctionLiteral ==
    pc = "parsed" /\ Len(tokens) > 0 /\ tokens[1].k = "Func" =>
        LET ps == ParameterPart(tokens) IN
        IF IsParameterList(ps) /\ HasBody(tokens)
        THEN /\ program.parse_errors = <<>>
             /\ program.statements =
                    <<ExpressionStatement(FunctionLiteral(ParametersOf(ps),
                                                          BodyOf(tokens)))>>
        ELSE /\ program.parse_errors # <<>>
             /\ \A i \in 1..Len(program.statements) :
                    ~(program.statements[i].s = "Expression"
                      /\ program.statements[i].e.t = "Function")

\* the source has an invalid statement inside its nested block
HasNestedError(toks) == \E i \in 1..Len(toks) : toks[i].k = "Asterisk"

\* C17: a parse error raised inside a nested block makes parse_program record
\* exactly one ParseError for the whole enclosing top-level statement and
\* append none of the statements of that block: of a top-level statement
\* with an invalid statement in its block, followed by `2 .`, the Program
\* holds one error and the statement 2 alone.
C17_OneErrorPerStatement ==
    pc = "parsed" /\ HasNestedError(tokens) =>
        /\ Len(program.parse_errors) = 1
        /\ program.statements = <<ExpressionStatement(IntegerLiteral(2))>>

\* a call that returns Ok from position p on has consumed a token: the
\* iterations of the block loop are calls of parse_statement, the parameter
\* loop consumes at its head, and parse_expression is entered with the token
\* before p consumed
Consumes(toks, p) ==
    /\ LET r == ParseStatement(toks, p) IN r.ok => r.pos > p
    /\ LET r == ParseFunctionParameters(toks, p, <<>>) IN r.ok => r.pos > p
    /\ LET r == ParseBlockstatement(toks, p, <<>>) IN
           r.ok /\ r.val # <<>> => r.pos > p
    /\ LET r == ParseExpression(toks, p + 1, toks[p], "Lowest") IN
           r.ok => r.pos > p

\* C18: parse_program terminates on every token sequence: every iteration of
\* the statement loop moves the cursor forward, every nested loop and call
\* that returns Ok has consumed a token, and the Program is returned, also
\* when the stream ends inside an unterminated block.
C18_Terminates ==
    /\ [][pc = "parse" /\ pc' = "parse" => pos' > pos /\ pos' <= Len(tokens) + 1]_vars
    /\ [](\A p \in 1..Len(tokens) : Consumes(tokens, p))
    /\ <>(pc = "parsed")

\* the Program returned for `if a : a`, a stream that ends inside a block
C18_Witness ==
    /\ pc = "parsed"
    /\ tokens = <<Tok("If"), IdentTok("a"), Tok("Assign"), IdentTok("a")>>
    /\ program.parse_errors = <<ExpectedToken>>
    /\ pos = Len(tokens) + 1

\* C19: NoInfixExpression is never among the errors of parse_program, while
\* parsing or in the Program returned: parse_infix_expression is only given
\* tokens the loop guard found to carry an infix meaning.
C19_NoInfixExpressionUnreachable ==
    /\ \A i \in 1..Len(parse_errors) : parse_errors[i].e # "NoInfixExpression"
    /\ \A i \in 1..Len(program.parse_errors) :
           program.parse_errors[i].e # "NoInfixExpression"

\* `a + a a`: the loop takes `+` and its operand, then stops before a token
\* without infix meaning, which begins the next statement
C19_Witness ==
    /\ pc = "parsed"
    /\ tokens = <<IdentTok("a"), Tok("Plus"), IdentTok("a"), IdentTok("a")>>
    /\ program.statements =
           <<ExpressionStatement(InfixExpression(IdentifierLiteral("a"), "Plus",
                                                 IdentifierLiteral("a")))>>
    /\ program.parse_errors = <<ExpectedToken>>

=============================================================================
